---- MODULE Spec2Model ----
(***************************************************************************)
(* Model of the pensioner signup flow of the heroes backend                *)
(* (routes/users.js, the variant that imports executeQuery/getConnection   *)
(* from config/database.js): the signup_tokens store, the three signup     *)
(* steps, the token sweep and the account tables.                          *)
(*                                                                         *)
(* Every `await` of a handler is a separate action, so that concurrent     *)
(* requests interleave exactly where the Node.js event loop lets them.     *)
(* Text values are sequences of one-character strings, so that trim and    *)
(* upper/lower-casing are computed.  The alphabet holds no character that  *)
(* validator.escape rewrites.  Time is counted in ticks of one clock,      *)
(* shared by the application (Date.now) and the database (NOW()).          *)
(***************************************************************************)
EXTENDS Integers, Sequences, FiniteSets, TLC

\* ------------------------------------------------------------------ bounds
TicksPerHour == 1
MaxTokens == 3
NumSlots == 2

MaxTime == 2 * TicksPerHour
Slots == 1..NumSlots
TokIds == 1..MaxTokens

\* ------------------------------------------------------------- text values
Empty == <<>>
NullStr == <<"null">>

LowerCaseLetters ==
  <<"a", "b", "c", "d", "e", "f", "g", "h", "i", "j", "k", "l", "m",
    "n", "o", "p", "q", "r", "s", "t", "u", "v", "w", "x", "y", "z">>
UpperCaseLetters ==
  <<"A", "B", "C", "D", "E", "F", "G", "H", "I", "J", "K", "L", "M",
    "N", "O", "P", "Q", "R", "S", "T", "U", "V", "W", "X", "Y", "Z">>
Range(f) == {f[i] : i \in DOMAIN f}
IndexOf(f, c) == CHOOSE i \in DOMAIN f : f[i] = c

toUpperChar(c) == IF c \in Range(LowerCaseLetters) THEN UpperCaseLetters[IndexOf(LowerCaseLetters, c)] ELSE c
toLowerChar(c) == IF c \in Range(UpperCaseLetters) THEN LowerCaseLetters[IndexOf(UpperCaseLetters, c)] ELSE c
toUpperCase(s) == [i \in 1..Len(s) |-> toUpperChar(s[i])]
toLowerCase(s) == [i \in 1..Len(s) |-> toLowerChar(s[i])]

RECURSIVE trimLeft(_)
trimLeft(s) == IF Len(s) > 0 /\ s[1] = " " THEN trimLeft(Tail(s)) ELSE s
RECURSIVE trimRight(_)
trimRight(s) == IF Len(s) > 0 /\ s[Len(s)] = " " THEN trimRight(SubSeq(s, 1, Len(s) - 1)) ELSE s
trim(s) == trimRight(trimLeft(s))

\* SQL: UPPER(TRIM(col))
SqlUpperTrim(s) == toUpperCase(trim(s))
\* SQL: DATE(x) keeps the calendar day of a <<day, time>> value
SqlDate(d) == d[1]

\* ------------------------------------------------------- registry (test_table)
\* Reference data, read only.  Rows 3 and 4 are a duplicated entry.
test_table ==
  { [NDX |-> 1, AFPSN |-> <<" ", "a", "1">>, TYPE |-> "P", FIRSTNAME |-> <<"J", "o">>,
     LASTNAME |-> <<"x", " ">>, DOB |-> <<1, 7>>, CTRLNR |-> 11],
    [NDX |-> 2, AFPSN |-> <<"B", "2">>, TYPE |-> "B", FIRSTNAME |-> <<"B", "O">>,
     LASTNAME |-> <<"X">>, DOB |-> <<2, 0>>, CTRLNR |-> 12],
    [NDX |-> 3, AFPSN |-> <<"A", "3">>, TYPE |-> "P", FIRSTNAME |-> <<"A", "B">>,
     LASTNAME |-> <<"X">>, DOB |-> <<1, 0>>, CTRLNR |-> 13],
    [NDX |-> 4, AFPSN |-> <<"A", "3">>, TYPE |-> "P", FIRSTNAME |-> <<"A", "B">>,
     LASTNAME |-> <<"X">>, DOB |-> <<1, 0>>, CTRLNR |-> 13] }

\* ------------------------------------------------------------------- state
VARIABLES
  now,            \* the clock: Date.now() and NOW()
  sweepDue,       \* the setInterval timer has fired and the sweep has not run yet
  lastSweep,      \* how the last run of the sweep ended: "none", "done" or "failed" (its log line)
  signup_tokens,  \* table signup_tokens: token -> row, or NoRow
  issued,         \* history: for every token value ever generated, who issued it
  pensioners_tbl, \* committed profile rows
  users_tbl,      \* committed credential rows
  uniqueKeys,     \* the UNIQUE indexes the deployed schema declares
  req,            \* the requests in flight, one per slot
  pool,           \* config/database.js `let pool`: 0 for null, else the number of the pool
  poolSeq,        \* how many pools mysql.createPool has created so far
  endedPools,     \* the pools on which pool.end() has been called
  call            \* the executeQuery calls in flight, one per caller

vars == <<now, sweepDue, lastSweep, signup_tokens, issued, pensioners_tbl, users_tbl, uniqueKeys, req,
          pool, poolSeq, endedPools, call>>

NoRow == [data |-> <<>>, expires_at |-> -1, created_at |-> -1]
NoIssue == [step |-> 0, parent |-> 0, at |-> -1, expires_at |-> -1]
NoToken == 0      \* the request body carries no token
BogusToken == -1  \* a token value that was never generated

\* the payload object a token carries (tokenData / step2TokenData)
NoData ==
  [step |-> 0, type |-> "", afpsn |-> Empty, bos |-> NullStr, b_type |-> "",
   principal_first_name |-> NullStr, principal_last_name |-> NullStr,
   firstname |-> Empty, lastname |-> Empty, dob |-> <<0, 0>>, hero_ndx |-> 0, hero_ctrl_nr |-> 0,
   validated_at |-> -1]

\* JSON.stringify / JSON.parse of a payload: the stored text is the list of values
JSONstringify(d) ==
  <<d.step, d.type, d.afpsn, d.bos, d.b_type, d.principal_first_name, d.principal_last_name,
    d.firstname, d.lastname, d.dob, d.hero_ndx, d.hero_ctrl_nr, d.validated_at>>
\* JSON.parse throws on a text that is not the serialization of a payload
Parseable(t) == Len(t) = Len(JSONstringify(NoData))
JSONparse(t) ==
  [step |-> t[1], type |-> t[2], afpsn |-> t[3], bos |-> t[4], b_type |-> t[5],
   principal_first_name |-> t[6], principal_last_name |-> t[7],
   firstname |-> t[8], lastname |-> t[9], dob |-> t[10], hero_ndx |-> t[11], hero_ctrl_nr |-> t[12],
   validated_at |-> t[13]]

NoBody ==
  [step |-> 0, type |-> "", afpsn |-> Empty, bos |-> Empty, b_type |-> "",
   principal_first_name |-> Empty, principal_last_name |-> Empty, token |-> NoToken,
   firstname |-> Empty, lastname |-> Empty, dob |-> <<0, 0>>, email |-> Empty, password |-> Empty]

NoResp == [status |-> 0, code |-> "", error |-> "", token |-> NoToken, validUntil |-> -1]
NoPensioner == [id |-> 0, hero_ndx |-> 0, type |-> ""]
\* last_login: -1 stands for NULL
NoUser ==
  [id |-> 0, pensioner_ndx |-> 0, email |-> Empty, password_hash |-> Empty, status |-> "",
   last_login |-> -1]

Idle ==
  [pc |-> "idle", body |-> NoBody, data |-> NoData, hero |-> 0,
   user |-> NoUser, txP |-> NoPensioner, txU |-> NoUser, conn |-> FALSE, err |-> "", resp |-> NoResp,
   tokRes |-> "", resolvedAt |-> -1, dbErr |-> FALSE, acctAtStart |-> FALSE, queried |-> FALSE,
   began |-> FALSE]

Resp(status, code) == [NoResp EXCEPT !.status = status, !.code = code]

\* the handler has sent a statement to the database (executeQuery or connection.execute)
Queried(s) == [s EXCEPT !.queried = TRUE]

\* res.status(..).json(..): the handler returns; the response is kept for inspection
Reply(s, status, code) == [s EXCEPT !.pc = "done", !.resp = Resp(status, code)]

\* the catch of router.post('/signup'): an exception thrown by a handler
ReplyThrown(s, dbFailure) ==
  [s EXCEPT !.pc = "done", !.dbErr = (s.dbErr \/ dbFailure), !.resp = Resp(500, "STEP_ERROR")]

\* an executeQuery call: the loop counter, the retries argument, the attempt
\* counter of its initializeDatabase call and whether a connection test of that
\* call has succeeded, and for every
\* attempt made the pool it ran on, the error it ended with and the number of
\* pools created when it started and when it ended
IdleCall == [pc |-> "idle", retries |-> 0, attempt |-> 0, initAttempt |-> 0, tested |-> FALSE,
             log |-> <<>>, usedPool |-> 0, thrown |-> ""]

\* config/database.js at module load: let pool = null
InitGateway ==
  /\ pool = 0
  /\ poolSeq = 0
  /\ endedPools = {}
  /\ call = [c \in Slots |-> IdleCall]

Init ==
  /\ now = 0
  /\ InitGateway
  /\ sweepDue = FALSE
  /\ lastSweep = "none"
  /\ signup_tokens = [t \in TokIds |-> NoRow]
  /\ issued = [t \in TokIds |-> NoIssue]
  /\ pensioners_tbl = {}
  /\ users_tbl = {}
  /\ uniqueKeys \in SUBSET {"hero_ndx", "email"}
  /\ req = [r \in Slots |-> Idle]

\* --------------------------------------------------------------- token store
\* crypto.randomBytes(32): a value never generated before
generateValidationToken == 1 + Cardinality({t \in TokIds : issued[t] # NoIssue})
CanGenerate == generateValidationToken \in TokIds

\* variant: storing a token replaces the rows of the table
storeValidationToken_replace(token, data, expiresInHours) ==
  signup_tokens' = [t \in TokIds |-> IF t = token
     THEN [data |-> JSONstringify(data), expires_at |-> now + expiresInHours * TicksPerHour,
           created_at |-> now]
     ELSE NoRow]
\* INSERT ... ON DUPLICATE KEY UPDATE, expires_at = Date.now() + expiresInHours hours
storeValidationToken(token, data, expiresInHours) ==
  signup_tokens' = [signup_tokens EXCEPT ![token] =
     [data |-> JSONstringify(data), expires_at |-> now + expiresInHours * TicksPerHour,
      created_at |-> now]]

DefaultExpiresInHours == 2

\* variant: the SELECT without its expiry condition
SelectValidToken_anyAge(token) == {t \in TokIds : t = token /\ signup_tokens[t] # NoRow}
\* SELECT ... WHERE token = ? AND expires_at > NOW()
SelectValidToken(token) ==
  {t \in TokIds : t = token /\ signup_tokens[t] # NoRow /\ signup_tokens[t].expires_at > now}
\* SELECT ... WHERE token = ?
SelectToken(token) == {t \in TokIds : t = token /\ signup_tokens[t] # NoRow}

\* setInterval(cleanupExpiredTokens, 1 hour): the timer fires on the hour
Tick ==
  /\ now < MaxTime
  /\ now' = now + 1
  /\ sweepDue' = (sweepDue \/ (now + 1) % TicksPerHour = 0)
  /\ UNCHANGED lastSweep
  /\ UNCHANGED <<signup_tokens, issued, pensioners_tbl, users_tbl, uniqueKeys, req, pool, poolSeq, endedPools, call>>

\* variant: the DELETE spares the rows that expire at this very moment
DeleteExpired_strict(tokens) ==
  [t \in TokIds |-> IF tokens[t] # NoRow /\ tokens[t].expires_at < now THEN NoRow ELSE tokens[t]]
\* DELETE FROM signup_tokens WHERE UNIX_TIMESTAMP(expires_at) <= now
DeleteExpired(tokens) ==
  [t \in TokIds |-> IF tokens[t] # NoRow /\ tokens[t].expires_at <= now THEN NoRow ELSE tokens[t]]

\* cleanupExpiredTokens: the DELETE; a failure is logged and swallowed
cleanupExpiredTokens ==
  /\ sweepDue
  /\ sweepDue' = FALSE
  /\ \E ok \in BOOLEAN :
       /\ signup_tokens' = IF ok THEN DeleteExpired(signup_tokens) ELSE signup_tokens
       /\ lastSweep' = IF ok THEN "done" ELSE "failed"
  /\ UNCHANGED <<now, issued, pensioners_tbl, users_tbl, uniqueKeys, req, pool, poolSeq, endedPools, call>>

\* ------------------------------------------------------------------- queries
\* SELECT COUNT(*) FROM test_table WHERE UPPER(TRIM(AFPSN)) = ? AND TYPE = ?
afpsnExists(afpsn, type) ==
  Cardinality({h \in test_table : SqlUpperTrim(h.AFPSN) = afpsn /\ h.TYPE = type})

\* The pool is configured with supportBigNumbers and bigNumberStrings: a driver that
\* honours them for prepared statements returns the BIGINT of COUNT(*) as a string.
BigIntResult(n, asString) == [type |-> IF asString THEN "string" ELSE "number", value |-> n]
\* JavaScript ===
StrictEquals(c, n) == c.type = "number" /\ c.value = n

\* variant: the existing-account query finds nothing
existingAccount_none(afpsn, type) == {}
\* SELECT u.id FROM users_tbl u JOIN pensioners_tbl p JOIN test_table h
\*  WHERE UPPER(TRIM(h.AFPSN)) = ? AND h.TYPE = ?
existingAccount(afpsn, type) ==
  {u \in users_tbl : \E p \in pensioners_tbl, h \in test_table :
       /\ u.pensioner_ndx = p.id /\ p.hero_ndx = h.NDX
       /\ SqlUpperTrim(h.AFPSN) = afpsn /\ h.TYPE = type}

\* variant: the registry query without its birth-date condition
heroes_anyDob(firstname, lastname, dob, afpsn, type) ==
  {h \in test_table :
       /\ SqlUpperTrim(h.FIRSTNAME) = firstname /\ SqlUpperTrim(h.LASTNAME) = lastname
       /\ SqlUpperTrim(h.AFPSN) = afpsn /\ h.TYPE = type}
\* SELECT ... FROM test_table WHERE UPPER(TRIM(FIRSTNAME)) = ? AND UPPER(TRIM(LASTNAME)) = ?
\*  AND DATE(DOB) = DATE(?) AND UPPER(TRIM(AFPSN)) = ? AND TYPE = ?
heroes(firstname, lastname, dob, afpsn, type) ==
  {h \in test_table :
       /\ SqlUpperTrim(h.FIRSTNAME) = firstname /\ SqlUpperTrim(h.LASTNAME) = lastname
       /\ SqlDate(h.DOB) = SqlDate(dob)
       /\ SqlUpperTrim(h.AFPSN) = afpsn /\ h.TYPE = type}

\* SELECT id FROM users_tbl WHERE email = ? LIMIT 1
existingUsers(email) == {u \in users_tbl : u.email = email}

\* variant: the registry-identity query finds nothing
existingHeroAccount_none(hero_ndx) == {}
\* SELECT u.id FROM users_tbl u JOIN pensioners_tbl p WHERE p.hero_ndx = ?
existingHeroAccount(hero_ndx) ==
  {u \in users_tbl : \E p \in pensioners_tbl : u.pensioner_ndx = p.id /\ p.hero_ndx = hero_ndx}

TokensUnchanged == UNCHANGED <<signup_tokens, issued>>
AccountsUnchanged == UNCHANGED <<pensioners_tbl, users_tbl>>
EnvUnchanged == UNCHANGED <<now, sweepDue, lastSweep, uniqueKeys, pool, poolSeq, endedPools, call>>

\* ----------------------------------------------------------------- the route
\* sanitizeInput: every text field but the password is trimmed (and escaped: the
\* alphabet holds no character that escaping changes)
sanitizeInput(b) ==
  [b EXCEPT !.afpsn = trim(b.afpsn), !.bos = trim(b.bos),
            !.principal_first_name = trim(b.principal_first_name),
            !.principal_last_name = trim(b.principal_last_name),
            !.firstname = trim(b.firstname), !.lastname = trim(b.lastname),
            !.email = trim(b.email)]

\* what the account tables say, when the request arrives, about the identity it
\* names: is there a credential row whose profile row points at that registry record
LinkedHeroes == {p.hero_ndx : p \in {q \in pensioners_tbl : \E u \in users_tbl : u.pensioner_ndx = q.id}}
AccountAtStart(body) ==
  CASE body.step = 1 ->
         \E h \in test_table : /\ h.NDX \in LinkedHeroes /\ h.TYPE = body.type
                                /\ toUpperCase(trim(h.AFPSN)) = toUpperCase(trim(body.afpsn))
    [] body.step = 3 /\ body.token \in TokIds /\ signup_tokens[body.token] # NoRow ->
         signup_tokens[body.token].data[11] \in LinkedHeroes
    [] OTHER -> FALSE

\* router.post("/signup"): sanitizeInput, then the request is handed to its step
signup(b) ==
  [Idle EXCEPT !.pc = "handler", !.body = sanitizeInput(b),
               !.acctAtStart = AccountAtStart(sanitizeInput(b))]

\* validateDatabaseConnection: 503 when the connection test fails
validateDatabaseConnection(s) ==
  [s EXCEPT !.pc = "done", !.dbErr = TRUE, !.resp = Resp(503, "DB_CONNECTION_FAILED")]

\* ------------------------------------------------------------------- step 1
Step1Invalid(body) ==
  CASE body.type = "" \/ body.afpsn = Empty -> "MISSING_REQUIRED_FIELDS"
    [] body.type \notin {"P", "B"} -> "INVALID_TYPE"
    [] body.type = "P" /\ body.bos = Empty -> "MISSING_BOS"
    [] body.type = "B" /\ (body.b_type = "" \/ body.principal_first_name = Empty
                           \/ body.principal_last_name = Empty) -> "MISSING_BENEFICIARY_INFO"
    [] OTHER -> ""

normalizedAfpsn(body) == toUpperCase(trim(body.afpsn))

\* handleStep1 from the arrival of the request to the answer of the COUNT(*) query
handleStep1_afpsnExists(r, b) ==
  /\ req[r].pc = "idle"
  /\ b.step = 1
  /\ LET s == signup(b)
         body == s.body
     IN \E connected \in BOOLEAN, ok \in BOOLEAN, asString \in BOOLEAN :
          req' = [req EXCEPT ![r] =
            IF ~connected THEN validateDatabaseConnection(s)
            ELSE IF Step1Invalid(body) # "" THEN Reply(s, 400, Step1Invalid(body))
            ELSE IF ~ok THEN ReplyThrown(Queried(s), TRUE)
            ELSE IF StrictEquals(BigIntResult(afpsnExists(normalizedAfpsn(body), body.type), asString), 0)
                 THEN Reply(Queried(s), 404, "AFPSN_NOT_FOUND")
                 ELSE [Queried(s) EXCEPT !.pc = "s1_acct"]]
  /\ TokensUnchanged /\ AccountsUnchanged /\ EnvUnchanged

\* handleStep1, the existing-account query
handleStep1_existingAccount(r) ==
  /\ req[r].pc = "s1_acct"
  /\ LET s == req[r]
     IN \E ok \in BOOLEAN :
          req' = [req EXCEPT ![r] =
            IF ~ok THEN ReplyThrown(s, TRUE)
            ELSE IF existingAccount(normalizedAfpsn(s.body), s.body.type) # {}
                 THEN Reply(s, 409, "ACCOUNT_EXISTS")
                 ELSE [s EXCEPT !.pc = "s1_store"]]
  /\ TokensUnchanged /\ AccountsUnchanged /\ EnvUnchanged

Step1TokenData(body) ==
  [NoData EXCEPT !.step = 1, !.type = body.type, !.afpsn = normalizedAfpsn(body),
     !.bos = IF body.type = "P" THEN toUpperCase(trim(body.bos)) ELSE NullStr,
     !.b_type = IF body.b_type = "" THEN "null" ELSE body.b_type,
     !.principal_first_name =
        IF body.type = "B" THEN toUpperCase(trim(body.principal_first_name)) ELSE NullStr,
     !.principal_last_name =
        IF body.type = "B" THEN toUpperCase(trim(body.principal_last_name)) ELSE NullStr]

\* meta.validUntil of the step-1 response: Date.now() + 3600000
Step1ValidUntilHours == 1

Issue(token, step, parent) ==
  issued' = [issued EXCEPT ![token] =
     [step |-> step, parent |-> parent, at |-> now, expires_at |-> signup_tokens'[token].expires_at]]

\* handleStep1: generateValidationToken, storeValidationToken and the 200 response
handleStep1_storeToken(r) ==
  /\ req[r].pc = "s1_store"
  /\ CanGenerate
  /\ LET s == req[r]
         token == generateValidationToken
     IN \E ok \in BOOLEAN :
          IF ~ok
          THEN /\ req' = [req EXCEPT ![r] = ReplyThrown(s, TRUE)]
               /\ TokensUnchanged
          ELSE /\ storeValidationToken(token, Step1TokenData(s.body), DefaultExpiresInHours)
               /\ Issue(token, 1, NoToken)
               /\ req' = [req EXCEPT ![r] = [s EXCEPT !.pc = "done",
                     !.resp = [status |-> 200, code |-> "OK", error |-> "", token |-> token,
                               validUntil |-> now + Step1ValidUntilHours * TicksPerHour]]]
  /\ AccountsUnchanged /\ EnvUnchanged

\* ------------------------------------------------------- getValidationToken
\* the handler's reaction to a failed getValidationToken (its catch block)
TokenRejected(s, outcome) ==
  LET code == IF s.body.step = 3 THEN "INVALID_STEP2_TOKEN"
              ELSE IF outcome = "expired" THEN "TOKEN_EXPIRED"
              ELSE IF outcome = "corrupt" THEN "TOKEN_DATA_ERROR"
              ELSE "INVALID_STEP1_TOKEN"
  IN [Reply(s, 400, code) EXCEPT !.tokRes = outcome, !.dbErr = (outcome = "dberror")]

\* variant: the payload comes back without its serial number
getValidationToken_valid_lossy(s, ok) ==
  LET rows == SelectValidToken(s.body.token)
      t == [s EXCEPT !.resolvedAt = now, !.queried = TRUE]
  IN IF ~ok THEN TokenRejected(t, "dberror")
     ELSE IF rows = {} THEN [t EXCEPT !.pc = "tok2"]
     ELSE IF ~Parseable(signup_tokens[s.body.token].data) THEN TokenRejected(t, "corrupt")
     ELSE [t EXCEPT !.pc = "resolved", !.tokRes = "ok",
                    !.data = [JSONparse(signup_tokens[s.body.token].data) EXCEPT !.afpsn = Empty]]
\* the first SELECT of getValidationToken; an empty answer leads to the second SELECT
getValidationToken_valid(s, ok) ==
  LET rows == SelectValidToken(s.body.token)
      t == [s EXCEPT !.resolvedAt = now, !.queried = TRUE]
  IN IF ~ok THEN TokenRejected(t, "dberror")
     ELSE IF rows = {} THEN [t EXCEPT !.pc = "tok2"]
     ELSE IF ~Parseable(signup_tokens[s.body.token].data) THEN TokenRejected(t, "corrupt")
     ELSE [t EXCEPT !.pc = "resolved", !.tokRes = "ok",
                    !.data = JSONparse(signup_tokens[s.body.token].data)]

\* the second SELECT of getValidationToken: does the row exist at all
getValidationToken_expired(s, ok) ==
  IF ~ok THEN TokenRejected(s, "dberror")
  ELSE IF SelectToken(s.body.token) # {} THEN TokenRejected(s, "expired")
  ELSE TokenRejected(s, "notfound")

\* ------------------------------------------------------------------- step 2
\* variant: step 2 without the check of the payload's step
Step2Resolved_anyStep(s) ==
  IF s.body.firstname = Empty \/ s.body.lastname = Empty \/ s.body.dob = <<0, 0>>
  THEN Reply(s, 400, "MISSING_PERSONAL_INFO")
  ELSE [s EXCEPT !.pc = "s2_match"]
\* handleStep2 after getValidationToken has returned the payload
Step2Resolved(s) ==
  IF s.data.step # 1 THEN [Reply(s, 400, "INVALID_STEP1_TOKEN") EXCEPT !.tokRes = "wrongstep"]
  ELSE IF s.body.firstname = Empty \/ s.body.lastname = Empty \/ s.body.dob = <<0, 0>>
       THEN Reply(s, 400, "MISSING_PERSONAL_INFO")
       ELSE [s EXCEPT !.pc = "s2_match"]

\* handleStep2 from the arrival of the request to the answer of the first token query
handleStep2_getValidationToken(r, b) ==
  /\ req[r].pc = "idle"
  /\ b.step = 2
  /\ LET s == signup(b)
     IN \E connected \in BOOLEAN, ok \in BOOLEAN :
          req' = [req EXCEPT ![r] =
            IF ~connected THEN validateDatabaseConnection(s)
            ELSE IF s.body.token = NoToken THEN Reply(s, 400, "MISSING_STEP1_TOKEN")
            ELSE LET t == getValidationToken_valid(s, ok)
                 IN IF t.pc = "resolved" THEN Step2Resolved(t) ELSE t]
  /\ TokensUnchanged /\ AccountsUnchanged /\ EnvUnchanged

\* getValidationToken's second query, for either step
getValidationToken_second(r) ==
  /\ req[r].pc = "tok2"
  /\ \E ok \in BOOLEAN : req' = [req EXCEPT ![r] = getValidationToken_expired(req[r], ok)]
  /\ TokensUnchanged /\ AccountsUnchanged /\ EnvUnchanged

normalizedFirstname(body) == toUpperCase(trim(body.firstname))
normalizedLastname(body) == toUpperCase(trim(body.lastname))

MatchedHeroes(s) ==
  heroes(normalizedFirstname(s.body), normalizedLastname(s.body), s.body.dob, s.data.afpsn, s.data.type)

\* handleStep2, the registry query
handleStep2_heroes(r) ==
  /\ req[r].pc = "s2_match"
  /\ LET s == req[r]
         found == MatchedHeroes(s)
     IN \E ok \in BOOLEAN :
          req' = [req EXCEPT ![r] =
            IF ~ok THEN ReplyThrown(s, TRUE)
            ELSE IF Cardinality(found) = 0 THEN Reply(s, 401, "PERSONAL_INFO_MISMATCH")
            ELSE IF Cardinality(found) > 1 THEN Reply(s, 409, "DUPLICATE_RECORDS")
            ELSE [s EXCEPT !.pc = "s2_store", !.hero = (CHOOSE h \in found : TRUE).NDX]]
  /\ TokensUnchanged /\ AccountsUnchanged /\ EnvUnchanged

HeroRow(ndx) == CHOOSE h \in test_table : h.NDX = ndx

Step2TokenData(s) ==
  [s.data EXCEPT !.firstname = normalizedFirstname(s.body), !.lastname = normalizedLastname(s.body),
                 !.dob = s.body.dob, !.hero_ndx = s.hero, !.hero_ctrl_nr = HeroRow(s.hero).CTRLNR,
                 !.step = 2, !.validated_at = now]

Step2ExpiresInHours == 2
\* meta.validUntil of the step-2 response: Date.now() + 7200000
Step2ValidUntilHours == 2

\* variant: a step 2 that deletes the step-1 token it was given
handleStep2_storeToken_consuming(r) ==
  /\ req[r].pc = "s2_store"
  /\ CanGenerate
  /\ LET s == req[r]
         token == generateValidationToken
     IN \E ok \in BOOLEAN :
          IF ~ok
          THEN /\ req' = [req EXCEPT ![r] = ReplyThrown(s, TRUE)]
               /\ TokensUnchanged
          ELSE /\ signup_tokens' = [signup_tokens EXCEPT
                     ![token] = [data |-> JSONstringify(Step2TokenData(s)),
                                 expires_at |-> now + Step2ExpiresInHours * TicksPerHour,
                                 created_at |-> now],
                     ![s.body.token] = NoRow]
               /\ Issue(token, 2, s.body.token)
               /\ req' = [req EXCEPT ![r] = [s EXCEPT !.pc = "done",
                     !.resp = [status |-> 200, code |-> "OK", error |-> "", token |-> token,
                               validUntil |-> now + Step2ValidUntilHours * TicksPerHour]]]
  /\ AccountsUnchanged /\ EnvUnchanged

\* handleStep2: generateValidationToken, storeValidationToken(.., 2) and the 200 response
handleStep2_storeToken(r) ==
  /\ req[r].pc = "s2_store"
  /\ CanGenerate
  /\ LET s == req[r]
         token == generateValidationToken
     IN \E ok \in BOOLEAN :
          IF ~ok
          THEN /\ req' = [req EXCEPT ![r] = ReplyThrown(s, TRUE)]
               /\ TokensUnchanged
          ELSE /\ storeValidationToken(token, Step2TokenData(s), Step2ExpiresInHours)
               /\ Issue(token, 2, s.body.token)
               /\ req' = [req EXCEPT ![r] = [s EXCEPT !.pc = "done",
                     !.resp = [status |-> 200, code |-> "OK", error |-> "", token |-> token,
                               validUntil |-> now + Step2ValidUntilHours * TicksPerHour]]]
  /\ AccountsUnchanged /\ EnvUnchanged

\* ------------------------------------------------------------------- step 3
Count(s, c) == Cardinality({i \in DOMAIN s : s[i] = c})

\* validator.isEmail: one "@", a local part, and a domain with a dot inside it
isEmail(e) ==
  /\ Count(e, "@") = 1
  /\ LET at == IndexOf(e, "@")
         domain == SubSeq(e, at + 1, Len(e))
     IN /\ at > 1
        /\ \E i \in 2..(Len(domain) - 1) : domain[i] = "."

\* password.replace(/[<>;"'`\\]/g, '').trim()
\* (the quote characters and the backslash are written by name)
FilteredChars == {"<", ">", ";", "dquote", "squote", "backtick", "backslash"}
RECURSIVE RemoveChars(_, _)
RemoveChars(s, cs) ==
  IF s = <<>> THEN <<>>
  ELSE IF Head(s) \in cs THEN RemoveChars(Tail(s), cs)
  ELSE <<Head(s)>> \o RemoveChars(Tail(s), cs)
filterPassword(password) == trim(RemoveChars(password, FilteredChars))

Digits == {"0", "1", "2", "3", "4", "5", "6", "7", "8", "9"}
Letters == Range(LowerCaseLetters) \cup Range(UpperCaseLetters)
SpecialChars ==
  {"!", "@", "#", "$", "%", "^", "&", "*", "(", ")", ",", ".", "?", "dquote", ":", "{", "}", "|", "<", ">"}
CommonPasswords ==
  { <<"1", "2", "3", "4", "5", "6">>, <<"p", "a", "s", "s", "w", "o", "r", "d">>,
    <<"q", "w", "e", "r", "t", "y">>, <<"a", "b", "c", "1", "2", "3">>,
    <<"a", "d", "m", "i", "n">>, <<"l", "e", "t", "m", "e", "i", "n">> }
StartsWith(s, w) == Len(s) >= Len(w) /\ SubSeq(s, 1, Len(w)) = w

minLength == 8
maxLength == 128

\* variant: the strength check without the repeated-character rule
validatePasswordStrength_runsAllowed(password) ==
  LET hasNumber == \E i \in DOMAIN password : password[i] \in Digits
      hasLetter == \E i \in DOMAIN password : password[i] \in Letters
      hasSpecialChar == \E i \in DOMAIN password : password[i] \in SpecialChars
      hasMinLength == Len(password) >= minLength
      hasMaxLength == Len(password) <= maxLength
      noCommonPatterns == ~ \E w \in CommonPasswords : StartsWith(toLowerCase(password), w)
  IN hasMinLength /\ hasMaxLength /\ hasNumber /\ hasLetter /\ hasSpecialChar /\ noCommonPatterns

validatePasswordStrength(password) ==
  LET hasNumber == \E i \in DOMAIN password : password[i] \in Digits
      hasLetter == \E i \in DOMAIN password : password[i] \in Letters
      hasSpecialChar == \E i \in DOMAIN password : password[i] \in SpecialChars
      hasMinLength == Len(password) >= minLength
      hasMaxLength == Len(password) <= maxLength
      noRepeatedChars ==
        ~ \E i \in 1..(Len(password) - 2) : password[i] = password[i+1] /\ password[i] = password[i+2]
      noCommonPatterns == ~ \E w \in CommonPasswords : StartsWith(toLowerCase(password), w)
  IN hasMinLength /\ hasMaxLength /\ hasNumber /\ hasLetter /\ hasSpecialChar
     /\ noRepeatedChars /\ noCommonPatterns

normalizedEmail(body) == trim(toLowerCase(body.email))

\* bcrypt.hash(password, 12)
bcryptHash(password) == <<"$2a$12$">> \o password

\* handleStep3: filterPassword, then validatePasswordStrength on the filtered password
passwordDecision(s) ==
  IF filterPassword(s.body.password) # s.body.password THEN Reply(s, 400, "INVALID_PASSWORD_CHARS")
  ELSE IF ~validatePasswordStrength(filterPassword(s.body.password)) THEN Reply(s, 400, "WEAK_PASSWORD")
  ELSE [s EXCEPT !.pc = "s3_email"]

\* variant: step 3 without the check of the payload's step
Step3Resolved_anyStep(s) ==
  IF s.body.email = Empty \/ s.body.password = Empty THEN Reply(s, 400, "MISSING_CREDENTIALS")
  ELSE IF ~isEmail(s.body.email) THEN Reply(s, 400, "INVALID_EMAIL")
  ELSE passwordDecision(s)
\* handleStep3 after getValidationToken has returned the payload
Step3Resolved(s) ==
  IF s.data.step # 2 THEN [Reply(s, 400, "INVALID_STEP2_TOKEN") EXCEPT !.tokRes = "wrongstep"]
  ELSE IF s.body.email = Empty \/ s.body.password = Empty THEN Reply(s, 400, "MISSING_CREDENTIALS")
  ELSE IF ~isEmail(s.body.email) THEN Reply(s, 400, "INVALID_EMAIL")
  ELSE passwordDecision(s)

\* handleStep3 from the arrival of the request to the answer of the first token query
handleStep3_getValidationToken(r, b) ==
  /\ req[r].pc = "idle"
  /\ b.step = 3
  /\ LET s == signup(b)
     IN \E connected \in BOOLEAN, ok \in BOOLEAN :
          req' = [req EXCEPT ![r] =
            IF ~connected THEN validateDatabaseConnection(s)
            ELSE IF s.body.token = NoToken
                 THEN [TokenRejected(s, "dberror") EXCEPT !.dbErr = FALSE]
            ELSE LET t == getValidationToken_valid(s, ok)
                 IN IF t.pc = "resolved" THEN Step3Resolved(t) ELSE t]
  /\ TokensUnchanged /\ AccountsUnchanged /\ EnvUnchanged

\* handleStep3, the email-uniqueness query
handleStep3_existingUsers(r) ==
  /\ req[r].pc = "s3_email"
  /\ LET s == req[r]
     IN \E ok \in BOOLEAN :
          req' = [req EXCEPT ![r] =
            IF ~ok THEN ReplyThrown(s, TRUE)
            ELSE IF existingUsers(normalizedEmail(s.body)) # {} THEN Reply(s, 409, "EMAIL_EXISTS")
            ELSE [s EXCEPT !.pc = "s3_hero"]]
  /\ TokensUnchanged /\ AccountsUnchanged /\ EnvUnchanged

\* handleStep3, the registry-identity-uniqueness query
handleStep3_existingHeroAccount(r) ==
  /\ req[r].pc = "s3_hero"
  /\ LET s == req[r]
     IN \E ok \in BOOLEAN :
          req' = [req EXCEPT ![r] =
            IF ~ok THEN ReplyThrown(s, TRUE)
            ELSE IF existingHeroAccount(s.data.hero_ndx) # {} THEN Reply(s, 409, "HERO_ACCOUNT_EXISTS")
            ELSE [s EXCEPT !.pc = "s3_begin"]]
  /\ TokensUnchanged /\ AccountsUnchanged /\ EnvUnchanged

\* handleStep3: getConnection(), connection.beginTransaction(), bcrypt.hash
handleStep3_beginTransaction(r) ==
  /\ req[r].pc = "s3_begin"
  /\ LET s == req[r]
     IN \E got \in BOOLEAN, ok \in BOOLEAN :
          req' = [req EXCEPT ![r] =
            IF ~got THEN ReplyThrown(s, TRUE)
            ELSE IF ~ok THEN [s EXCEPT !.pc = "s3_rollback", !.conn = TRUE, !.err = "DB", !.dbErr = TRUE]
            ELSE [s EXCEPT !.pc = "s3_ins_p", !.conn = TRUE, !.began = TRUE]]
  /\ TokensUnchanged /\ AccountsUnchanged /\ EnvUnchanged

\* AUTO_INCREMENT: an id no row of the table carries, committed or not (ids are
\* opaque to the handlers, so the least unused one stands for the next one)
insertId(committed, pending) ==
  LET used == {row.id : row \in committed} \cup {row.id : row \in pending}
  IN CHOOSE i \in 1..(Cardinality(used) + 1) : i \notin used /\ \A j \in 1..(i - 1) : j \in used

\* a row another open transaction has inserted under a UNIQUE index makes the insert wait
PendingPensioner(r, hero_ndx) ==
  \E o \in Slots \ {r} : req[o].txP # NoPensioner /\ req[o].txP.hero_ndx = hero_ndx
PendingUser(r, email) ==
  \E o \in Slots \ {r} : req[o].txU # NoUser /\ req[o].txU.email = email

\* handleStep3: INSERT INTO pensioners_tbl
handleStep3_insertPensioner(r) ==
  /\ req[r].pc = "s3_ins_p"
  /\ LET s == req[r]
         hero_ndx == s.data.hero_ndx
     IN /\ "hero_ndx" \in uniqueKeys => ~PendingPensioner(r, hero_ndx)
        /\ \E ok \in BOOLEAN :
             req' = [req EXCEPT ![r] =
               IF ~ok THEN [s EXCEPT !.pc = "s3_rollback", !.err = "DB", !.dbErr = TRUE]
               ELSE IF "hero_ndx" \in uniqueKeys /\ \E p \in pensioners_tbl : p.hero_ndx = hero_ndx
                    THEN [s EXCEPT !.pc = "s3_rollback", !.err = "ER_DUP_ENTRY"]
               ELSE [s EXCEPT !.pc = "s3_ins_u",
                       !.txP = [id |-> insertId(pensioners_tbl, {req[o].txP : o \in Slots}),
                                hero_ndx |-> hero_ndx, type |-> s.data.type]]]
  /\ TokensUnchanged /\ AccountsUnchanged /\ EnvUnchanged

\* handleStep3: INSERT INTO users_tbl
handleStep3_insertUser(r) ==
  /\ req[r].pc = "s3_ins_u"
  /\ LET s == req[r]
         email == normalizedEmail(s.body)
     IN /\ "email" \in uniqueKeys => ~PendingUser(r, email)
        /\ \E ok \in BOOLEAN :
             req' = [req EXCEPT ![r] =
               IF ~ok THEN [s EXCEPT !.pc = "s3_rollback", !.err = "DB", !.dbErr = TRUE]
               ELSE IF "email" \in uniqueKeys /\ \E u \in users_tbl : u.email = email
                    THEN [s EXCEPT !.pc = "s3_rollback", !.err = "ER_DUP_ENTRY"]
               ELSE [s EXCEPT !.pc = "s3_commit",
                       !.txU = [id |-> insertId(users_tbl, {req[o].txU : o \in Slots}),
                                pensioner_ndx |-> s.txP.id, email |-> email,
                                password_hash |-> bcryptHash(filterPassword(s.body.password)),
                                status |-> "UNV", last_login |-> -1]]]
  /\ TokensUnchanged /\ AccountsUnchanged /\ EnvUnchanged

\* variant: a commit that publishes the profile row only
Commit_profileOnly(s) ==
  /\ pensioners_tbl' = pensioners_tbl \cup {s.txP}
  /\ users_tbl' = users_tbl
\* connection.commit(): both rows become visible together
Commit(s) ==
  /\ pensioners_tbl' = pensioners_tbl \cup {s.txP}
  /\ users_tbl' = users_tbl \cup {s.txU}

\* handleStep3: connection.commit(), the 201 response, connection.release()
handleStep3_commit(r) ==
  /\ req[r].pc = "s3_commit"
  /\ LET s == req[r]
     IN \E ok \in BOOLEAN :
          IF ~ok
          THEN /\ req' = [req EXCEPT ![r] = [s EXCEPT !.pc = "s3_rollback", !.err = "DB", !.dbErr = TRUE]]
               /\ AccountsUnchanged
          ELSE /\ Commit(s)
               /\ req' = [req EXCEPT ![r] =
                     [Reply(s, 201, "CREATED") EXCEPT !.txP = NoPensioner, !.txU = NoUser, !.conn = FALSE]]
  /\ TokensUnchanged /\ EnvUnchanged

\* variant: the connection is released only when the rollback succeeds
handleStep3_rollback_leaky(r) ==
  /\ req[r].pc = "s3_rollback"
  /\ LET s == req[r]
     IN \E ok \in BOOLEAN :
          req' = [req EXCEPT ![r] =
             [ReplyThrown(s, ~ok) EXCEPT !.txP = NoPensioner, !.txU = NoUser, !.conn = ~ok,
                                         !.err = IF ok THEN s.err ELSE "ROLLBACK_FAILED"]]
  /\ TokensUnchanged /\ AccountsUnchanged /\ EnvUnchanged

\* handleStep3: catch (insertError) { rollback; throw } finally { release }
\* a rollback that fails has lost the connection, and the server discards the transaction
handleStep3_rollback(r) ==
  /\ req[r].pc = "s3_rollback"
  /\ LET s == req[r]
     IN \E ok \in BOOLEAN :
          req' = [req EXCEPT ![r] =
             [ReplyThrown(s, ~ok) EXCEPT !.txP = NoPensioner, !.txU = NoUser, !.conn = FALSE,
                                         !.err = IF ok THEN s.err ELSE "ROLLBACK_FAILED"]]
  /\ TokensUnchanged /\ AccountsUnchanged /\ EnvUnchanged

\* ------------------------------------------------------------ executeQuery
GatewayOnly == UNCHANGED <<now, sweepDue, lastSweep, signup_tokens, issued, pensioners_tbl, users_tbl, uniqueKeys, req>>

\* what a statement can end with: "" (success), a connection error or another error
QueryOutcomes ==
  {"", "PROTOCOL_CONNECTION_LOST", "ECONNRESET", "ETIMEDOUT", "ENOTFOUND", "ECONNREFUSED", "ER_PARSE_ERROR"}

\* a gateway that retries whatever the error is
isConnectionError_any(code) == code # ""

isConnectionError(code) ==
  code \in {"PROTOCOL_CONNECTION_LOST", "ECONNRESET", "ETIMEDOUT", "ENOTFOUND", "ECONNREFUSED"}

\* initializeDatabase(retries = 3)
InitRetries == 3

\* one entry of a call's history: the pool the attempt ran on (0: none), the
\* error it ended with ("" for none), the pool the module held when the attempt
\* ended, and the number of pools created by then
Attempt(s, code) == [pool |-> s.usedPool, err |-> code, current |-> pool, seqEnd |-> poolSeq]

\* executeQuery(query, params, retries): the for loop is entered with attempt = 1;
\* with retries + 1 < 1 the loop body never runs and the call returns undefined
executeQuery(c, retries) ==
  /\ call[c].pc = "idle"
  /\ call' = [call EXCEPT ![c] =
       IF 1 <= retries + 1
       THEN [IdleCall EXCEPT !.pc = "attempt", !.retries = retries, !.attempt = 1]
       ELSE [IdleCall EXCEPT !.pc = "returned", !.retries = retries, !.attempt = 1]]
  /\ UNCHANGED <<pool, poolSeq, endedPools>>
  /\ GatewayOnly

\* the catch block of executeQuery for an attempt that ended with error `code`:
\* a retry calls pool.end() on the pool the module holds now, if it holds one
executeQuery_catch(s, code) ==
  LET t == [s EXCEPT !.log = Append(@, Attempt(s, code)), !.usedPool = 0, !.initAttempt = 0,
                     !.tested = FALSE]
  IN IF isConnectionError(code) /\ s.attempt <= s.retries
     THEN IF pool # 0 THEN [t EXCEPT !.pc = "ending"]
          ELSE [t EXCEPT !.pc = "waiting"]
     ELSE [t EXCEPT !.pc = "thrown", !.thrown = code]

executeQuery_ends(s, code) ==
  IF isConnectionError(code) /\ s.attempt <= s.retries /\ pool # 0 THEN {pool} ELSE {}

\* if (!pool) await initializeDatabase(): the first attempt of initializeDatabase
\* finds no pool, creates one and starts the connection test
executeQuery_initializeDatabase(c) ==
  /\ call[c].pc = "attempt"
  /\ pool = 0
  /\ pool' = poolSeq + 1
  /\ poolSeq' = poolSeq + 1
  /\ call' = [call EXCEPT ![c] = [@ EXCEPT !.pc = "init_test", !.initAttempt = 1, !.tested = FALSE]]
  /\ UNCHANGED endedPools
  /\ GatewayOnly

\* await testConnectionInternal() settles.  On success pool.on(...) is called on
\* whatever the module holds now (a TypeError on null); an error is caught by
\* initializeDatabase, which waits and retries, or rethrows on its last attempt
initializeDatabase_test(c) ==
  /\ call[c].pc = "init_test"
  /\ LET s == call[c]
     IN \E outcome \in QueryOutcomes :
          LET code == IF outcome = "" /\ pool = 0 THEN "TypeError" ELSE outcome
          IN /\ call' = [call EXCEPT ![c] =
                  IF code = "" THEN [s EXCEPT !.pc = "initialized", !.tested = TRUE]
                  ELSE IF s.initAttempt = InitRetries THEN executeQuery_catch(s, code)
                  ELSE [s EXCEPT !.pc = "init_wait"]]
             /\ endedPools' = endedPools \cup
                  (IF code # "" /\ s.initAttempt = InitRetries THEN executeQuery_ends(s, code) ELSE {})
  /\ UNCHANGED <<pool, poolSeq>>
  /\ GatewayOnly

\* the next attempt of initializeDatabase: an existing pool is returned as it
\* is, otherwise a new one is created and tested
initializeDatabase_retry(c) ==
  /\ call[c].pc = "init_wait"
  /\ IF pool # 0
     THEN /\ call' = [call EXCEPT ![c] = [@ EXCEPT !.pc = "initialized", !.initAttempt = @ + 1]]
          /\ UNCHANGED <<pool, poolSeq>>
     ELSE /\ call' = [call EXCEPT ![c] = [@ EXCEPT !.pc = "init_test", !.initAttempt = @ + 1]]
          /\ pool' = poolSeq + 1
          /\ poolSeq' = poolSeq + 1
  /\ UNCHANGED endedPools
  /\ GatewayOnly

\* pool.execute(query, params) is called on whatever the module holds now; on
\* null it throws a TypeError, which carries no code
executeQuery_execute(c) ==
  /\ \/ call[c].pc = "attempt" /\ pool # 0
     \/ call[c].pc = "initialized"
  /\ call' = [call EXCEPT ![c] = [@ EXCEPT !.pc = "executing", !.usedPool = pool]]
  /\ UNCHANGED <<pool, poolSeq, endedPools>>
  /\ GatewayOnly

\* the attempt ends: with the rows, or with an error that the catch block handles
executeQuery_result(c) ==
  /\ call[c].pc = "executing"
  /\ LET s == call[c]
     IN \E outcome \in QueryOutcomes :
          LET code == IF s.usedPool = 0 THEN "TypeError" ELSE outcome
          IN /\ call' = [call EXCEPT ![c] =
                  IF code = ""
                  THEN [s EXCEPT !.pc = "returned", !.log = Append(@, Attempt(s, ""))]
                  ELSE executeQuery_catch(s, code)]
             /\ endedPools' = endedPools \cup (IF code = "" THEN {} ELSE executeQuery_ends(s, code))
  /\ UNCHANGED <<pool, poolSeq>>
  /\ GatewayOnly

\* await pool.end() has settled (its own errors are ignored): pool = null
executeQuery_resetPool(c) ==
  /\ call[c].pc = "ending"
  /\ pool' = 0
  /\ call' = [call EXCEPT ![c].pc = "waiting"]
  /\ UNCHANGED <<poolSeq, endedPools>>
  /\ GatewayOnly

\* the one-second wait is over: continue with the next iteration of the loop
executeQuery_continue(c) ==
  /\ call[c].pc = "waiting"
  /\ call' = [call EXCEPT ![c] = [@ EXCEPT !.pc = "attempt", !.attempt = @ + 1]]
  /\ UNCHANGED <<pool, poolSeq, endedPools>>
  /\ GatewayOnly

\* ------------------------------------------------------------------- login
\* the error codes the login handler answers with 503
ConnectionErrorCodes ==
  {"PROTOCOL_CONNECTION_LOST", "ECONNRESET", "ETIMEDOUT", "ENOTFOUND", "ECONNREFUSED"}

\* res.status(status).json({error, code})
LoginReply(s, status, code, error) ==
  [s EXCEPT !.pc = "done", !.resp = [Resp(status, code) EXCEPT !.error = error]]

\* the catch of router.post('/login'): the response is chosen by error.code
LoginThrown(s, errcode) ==
  LET t == [s EXCEPT !.err = errcode, !.dbErr = TRUE]
  IN CASE errcode = "PROTOCOL_CONNECTION_LOST" ->
            LoginReply(t, 503, "CONNECTION_LOST", "Database connection lost. Please try again.")
       [] errcode = "ECONNRESET" ->
            LoginReply(t, 503, "CONNECTION_RESET", "Database connection reset. Please try again.")
       [] errcode = "ETIMEDOUT" ->
            LoginReply(t, 503, "TIMEOUT_ERROR", "Database request timed out. Please try again.")
       [] errcode = "ECONNREFUSED" ->
            LoginReply(t, 503, "CONNECTION_REFUSED", "Unable to connect to database. Please try again later.")
       [] errcode = "ENOTFOUND" ->
            LoginReply(t, 503, "SERVER_NOT_FOUND", "Database server not found. Please contact support.")
       [] OTHER ->
            LoginReply(t, 500, "SERVICE_ERROR", "Service temporarily unavailable. Please try again later.")

\* SELECT ... FROM users_tbl u JOIN pensioners_tbl p JOIN test_table h WHERE u.email = ? LIMIT 1
users(email) ==
  {u \in users_tbl : /\ u.email = email
                     /\ \E p \in pensioners_tbl, h \in test_table :
                          u.pensioner_ndx = p.id /\ p.hero_ndx = h.NDX}

\* bcrypt.compare(password, hash)
bcryptCompare(password, hash) == bcryptHash(password) = hash

\* variant: no account counts as suspended
isSuspended_never(user) == FALSE
\* user.user_status === 'SUS'
isSuspended(user) == user.status = "SUS"

\* router.post('/login') from the arrival of the request to the answer of the users query
login_users(r, b) ==
  /\ req[r].pc = "idle"
  /\ b.step = 0
  /\ LET s == [Idle EXCEPT !.pc = "handler", !.body = sanitizeInput(b)]
         found == users(normalizedEmail(s.body))
     IN \E connected \in BOOLEAN, outcome \in QueryOutcomes :
          req' = [req EXCEPT ![r] =
            IF ~connected THEN validateDatabaseConnection(s)
            ELSE IF s.body.email = Empty \/ s.body.password = Empty
                 THEN LoginReply(s, 400, "MISSING_CREDENTIALS", "Email and password are required")
            ELSE IF ~isEmail(s.body.email)
                 THEN LoginReply(s, 400, "INVALID_EMAIL", "Please enter a valid email address")
            ELSE IF outcome # "" THEN LoginThrown(Queried(s), outcome)
            ELSE IF found = {} THEN LoginReply(Queried(s), 401, "INVALID_CREDENTIALS", "Invalid credentials")
            ELSE LET user == CHOOSE u \in found : TRUE
                 IN IF isSuspended(user)
                    THEN LoginReply([Queried(s) EXCEPT !.user = user], 403, "ACCOUNT_SUSPENDED",
                                    "Account suspended. Please contact support.")
                    ELSE [Queried(s) EXCEPT !.pc = "login_compare", !.user = user]]
  /\ TokensUnchanged /\ AccountsUnchanged /\ EnvUnchanged

\* variant: a wrong password is answered with a code of its own
login_compare_leaky(r) ==
  /\ req[r].pc = "login_compare"
  /\ LET s == req[r]
     IN req' = [req EXCEPT ![r] =
          IF ~bcryptCompare(s.body.password, s.user.password_hash)
          THEN LoginReply(s, 401, "WRONG_PASSWORD", "Invalid credentials")
          ELSE [s EXCEPT !.pc = "login_update", !.resp = Resp(200, "OK")]]
  /\ TokensUnchanged /\ AccountsUnchanged /\ EnvUnchanged

\* router.post('/login'): bcrypt.compare, then the response; on success the
\* UPDATE of last_login is started and not awaited
login_compare(r) ==
  /\ req[r].pc = "login_compare"
  /\ LET s == req[r]
     IN req' = [req EXCEPT ![r] =
          IF ~bcryptCompare(s.body.password, s.user.password_hash)
          THEN LoginReply(s, 401, "INVALID_CREDENTIALS", "Invalid credentials")
          ELSE [s EXCEPT !.pc = "login_update", !.resp = Resp(200, "OK")]]
  /\ TokensUnchanged /\ AccountsUnchanged /\ EnvUnchanged

\* UPDATE users_tbl SET last_login = NOW() WHERE id = ?; a failure is only logged
login_updateLastLogin(r) ==
  /\ req[r].pc = "login_update"
  /\ \E ok \in BOOLEAN :
       users_tbl' = IF ok
                    THEN {IF u.id = req[r].user.id THEN [u EXCEPT !.last_login = now] ELSE u : u \in users_tbl}
                    ELSE users_tbl
  /\ req' = [req EXCEPT ![r].pc = "done"]
  /\ UNCHANGED pensioners_tbl
  /\ TokensUnchanged /\ EnvUnchanged

\* the client has read the response; the slot serves the next request
Finish(r) ==
  /\ req[r].pc = "done"
  /\ req' = [req EXCEPT ![r] = Idle]
  /\ TokensUnchanged /\ AccountsUnchanged /\ EnvUnchanged

\* ------------------------------------------------------------ request bodies
\* the token values a client can present: none, a made-up one, or one it was given
KnownTokens == {t \in TokIds : issued[t] # NoIssue}
AnyTokens == {NoToken, BogusToken} \cup KnownTokens

Step1Body(type, afpsn, bos, b_type, pfn, pln) ==
  [NoBody EXCEPT !.step = 1, !.type = type, !.afpsn = afpsn, !.bos = bos, !.b_type = b_type,
                 !.principal_first_name = pfn, !.principal_last_name = pln]
Step2Body(token, p) ==
  [NoBody EXCEPT !.step = 2, !.token = token, !.firstname = p.firstname,
                 !.lastname = p.lastname, !.dob = p.dob]
Step3Body(token, c) ==
  [NoBody EXCEPT !.step = 3, !.token = token, !.email = c.email, !.password = c.password]

Juan == [firstname |-> <<"j", "o">>, lastname |-> <<"X">>, dob |-> <<1, 0>>]
StrongPassword == <<"S", "t", "r", "0", "n", "g", "!", "p">>
JuanMail == [email |-> <<"J", "@", "x", ".", "p", "h">>, password |-> StrongPassword]
OtherMail == [email |-> <<"b", "@", "x", ".", "p", "h">>, password |-> StrongPassword]

\* the requests of the concurrent scenario: one person signing up, two clients
FlowStep1Bodies == { Step1Body("P", <<"a", "1", " ">>, <<"p", "a">>, "", Empty, Empty) }
FlowStep2Bodies == { Step2Body(t, Juan) : t \in KnownTokens }
FlowStep3Bodies == { Step3Body(t, JuanMail) : t \in KnownTokens }
\* the second client holds the step-2 tokens and tries either email address,
\* or presents a token that was never issued
RaceStep3Bodies ==
  { Step3Body(t, c) : t \in {k \in KnownTokens : issued[k].step = 2}, c \in {JuanMail, OtherMail} }
  \cup { Step3Body(BogusToken, OtherMail) }

\* the requests of the sequential scenario: every kind of input, one client
AllStep1Bodies ==
  { Step1Body("P", a, <<"p", "a">>, "", Empty, Empty) :
      a \in { <<"a", "1", " ">>, <<"a", "3">>, <<"x", "9">>, Empty } }
  \cup { Step1Body("P", <<"a", "1", " ">>, Empty, "", Empty, Empty) }
  \cup { Step1Body("B", <<"B", "2">>, Empty, "W", <<"j">>, pl) : pl \in {Empty, <<"x">>} }
  \cup { Step1Body("X", <<"B", "2">>, Empty, "", Empty, Empty) }
Persons ==
  { Juan,
    [firstname |-> <<"j", "o">>, lastname |-> <<"X">>, dob |-> <<2, 0>>],
    [firstname |-> <<"b", "o">>, lastname |-> <<"x">>, dob |-> <<2, 0>>],
    [firstname |-> <<"a", "b">>, lastname |-> <<"x">>, dob |-> <<1, 0>>],
    [firstname |-> <<" ">>, lastname |-> <<"x">>, dob |-> <<1, 0>>] }
AllStep2Bodies == { Step2Body(t, p) : t \in AnyTokens, p \in Persons }
Credentials ==
  { JuanMail, OtherMail,
    [email |-> <<"j", "@", "x">>, password |-> StrongPassword],
    [email |-> <<"j", "@", "x", ".", "p", "h">>, password |-> <<"a", "b", "c", "1", "!">>],
    [email |-> <<"j", "@", "x", ".", "p", "h">>, password |-> <<"S", "t", "r", "0", "n", "g", "!", ";">>] }
AllStep3Bodies == { Step3Body(t, c) : t \in AnyTokens, c \in Credentials }

\* candidate passwords: a head, a middle and a tail, 0 to 14 characters in all
PasswordHeads ==
  { <<>>, <<"a", "d", "m", "i", "n">>, <<"A", "d", "m", "i", "n">>,
    <<"p", "a", "s", "s", "w", "o", "r", "d">>, <<"a", "a", "a", "a", "a", "a", "a", "a">>,
    <<"a", "b">>, <<"x">>, <<" ", "x">> }
PasswordMiddles ==
  { <<>>, <<"1">>, <<"!">>, <<"1", "!">>, <<"c", "1", "!">>, <<"1", "<">>, <<"z", "z", "z">> }
PasswordTails ==
  { <<>>, <<"x">>, <<"x", "y">>, <<"x", "y", "z">>, <<"x", "y", "z", "w">>, <<"1", "!">>, <<"y", " ">> }
Passwords == { h \o m \o t : h \in PasswordHeads, m \in PasswordMiddles, t \in PasswordTails }

\* the login requests: a registered, another registered and an unregistered
\* address, a malformed one and none; the right password, a wrong one and none
WrongPassword == <<"W", "r", "0", "n", "g", "!", "p", "w">>
LoginBodies ==
  { [NoBody EXCEPT !.email = e, !.password = pw] :
      e \in { JuanMail.email, OtherMail.email, <<"z", "@", "x", ".", "p", "h">>, <<"j", "@", "x">>, Empty },
      pw \in { StrongPassword, WrongPassword, Empty } }
AccountStatuses == {"UNV", "ACT", "SUS"}

\* ------------------------------------------------------------ specifications
\* every step of a request after its first
Continue(r) ==
  \/ handleStep1_existingAccount(r)
  \/ handleStep1_storeToken(r)
  \/ getValidationToken_second(r)
  \/ handleStep2_heroes(r)
  \/ handleStep2_storeToken(r)
  \/ handleStep3_existingUsers(r)
  \/ handleStep3_existingHeroAccount(r)
  \/ handleStep3_beginTransaction(r)
  \/ handleStep3_insertPensioner(r)
  \/ handleStep3_insertUser(r)
  \/ handleStep3_commit(r)
  \/ handleStep3_rollback(r)
  \/ Finish(r)

\* Two clients at one instant: the first runs the whole flow, the second sends
\* account-creation requests with the tokens the first was given.
Next ==
  \/ \E b \in FlowStep1Bodies : handleStep1_afpsnExists(1, b)
  \/ \E b \in FlowStep2Bodies : handleStep2_getValidationToken(1, b)
  \/ \E b \in FlowStep3Bodies : handleStep3_getValidationToken(1, b)
  \/ \E r \in Slots \ {1}, b \in RaceStep3Bodies : handleStep3_getValidationToken(r, b)
  \/ \E r \in Slots : Continue(r)

Spec == Init /\ [][Next]_vars

\* One client sending every kind of request, one request at a time.
NextSeq ==
  \/ \E b \in AllStep1Bodies : handleStep1_afpsnExists(1, b)
  \/ \E b \in AllStep2Bodies : handleStep2_getValidationToken(1, b)
  \/ \E b \in AllStep3Bodies : handleStep3_getValidationToken(1, b)
  \/ Continue(1)

SpecSeq == Init /\ [][NextSeq]_vars

\* One client running the flow while time passes and the sweep timer fires.
NextTime ==
  \/ Tick
  \/ cleanupExpiredTokens
  \/ \E b \in FlowStep1Bodies : handleStep1_afpsnExists(1, b)
  \/ \E b \in FlowStep2Bodies : handleStep2_getValidationToken(1, b)
  \/ \E b \in FlowStep3Bodies : handleStep3_getValidationToken(1, b)
  \/ Continue(1)

SpecTime == Init /\ [][NextTime]_vars

\* Logins against two accounts that signup created, each in any status an
\* administrator can have given it; two clients log in at the same time.
InitLogin ==
  /\ now = 0
  /\ InitGateway
  /\ sweepDue = FALSE
  /\ lastSweep = "none"
  /\ signup_tokens = [t \in TokIds |-> NoRow]
  /\ issued = [t \in TokIds |-> NoIssue]
  /\ pensioners_tbl = { [id |-> 1, hero_ndx |-> 1, type |-> "P"], [id |-> 2, hero_ndx |-> 2, type |-> "B"] }
  /\ \E s1 \in AccountStatuses, s2 \in AccountStatuses :
       users_tbl =
         { [id |-> 1, pensioner_ndx |-> 1, email |-> normalizedEmail(JuanMail),
            password_hash |-> bcryptHash(StrongPassword), status |-> s1, last_login |-> -1],
           [id |-> 2, pensioner_ndx |-> 2, email |-> normalizedEmail(OtherMail),
            password_hash |-> bcryptHash(StrongPassword), status |-> s2, last_login |-> -1] }
  /\ uniqueKeys = {"hero_ndx", "email"}
  /\ req = [r \in Slots |-> Idle]

NextLogin ==
  \/ \E r \in Slots, b \in LoginBodies : login_users(r, b)
  \/ \E r \in Slots : login_compare(r)
  \/ \E r \in Slots : login_updateLastLogin(r)
  \/ \E r \in Slots : Finish(r)

SpecLogin == InitLogin /\ [][NextLogin]_vars

\* Two people, each holding the step-2 token of their own registry record,
\* create their accounts at the same time.  Their step-1 tokens have expired and
\* been swept.
Bo == [firstname |-> <<"b", "o">>, lastname |-> <<"x">>, dob |-> <<2, 0>>]
JuanLowerMail == [email |-> <<"j", "@", "x", ".", "p", "h">>, password |-> StrongPassword]

\* the payload handleStep2 stores for a person matched to registry row ndx
Step2TokenOf(body1, person, ndx) ==
  Step2TokenData([Idle EXCEPT !.body = sanitizeInput(Step2Body(NoToken, person)),
                              !.data = Step1TokenData(sanitizeInput(body1)), !.hero = ndx])

HolderTokenData(r) ==
  IF r = 1 THEN Step2TokenOf(Step1Body("P", <<"a", "1", " ">>, <<"p", "a">>, "", Empty, Empty), Juan, 1)
  ELSE Step2TokenOf(Step1Body("B", <<"B", "2">>, Empty, "W", <<"j">>, <<"x">>), Bo, 2)

InitEmail ==
  /\ now = 0
  /\ InitGateway
  /\ sweepDue = FALSE
  /\ lastSweep = "none"
  /\ signup_tokens = [t \in TokIds |->
       IF t \in Slots
       THEN [data |-> JSONstringify(HolderTokenData(t)),
             expires_at |-> now + Step2ExpiresInHours * TicksPerHour, created_at |-> now]
       ELSE NoRow]
  /\ issued = [t \in TokIds |->
       IF t \in Slots
       THEN [step |-> 2, parent |-> NoToken, at |-> now,
             expires_at |-> now + Step2ExpiresInHours * TicksPerHour]
       ELSE NoIssue]
  /\ pensioners_tbl = {}
  /\ users_tbl = {}
  /\ uniqueKeys \in SUBSET {"hero_ndx", "email"}
  /\ req = [r \in Slots |-> Idle]

\* the first person signs up as J@x.ph, the second as j@x.ph or as b@x.ph
EmailBodies(r) ==
  IF r = 1 THEN { Step3Body(r, JuanMail) }
  ELSE { Step3Body(r, JuanLowerMail), Step3Body(r, OtherMail) }

NextEmail ==
  \/ \E r \in Slots : \E b \in EmailBodies(r) : handleStep3_getValidationToken(r, b)
  \/ \E r \in Slots : handleStep3_existingUsers(r)
  \/ \E r \in Slots : handleStep3_existingHeroAccount(r)
  \/ \E r \in Slots : handleStep3_beginTransaction(r)
  \/ \E r \in Slots : handleStep3_insertPensioner(r)
  \/ \E r \in Slots : handleStep3_insertUser(r)
  \/ \E r \in Slots : handleStep3_commit(r)
  \/ \E r \in Slots : handleStep3_rollback(r)
  \/ \E r \in Slots : Finish(r)

SpecEmail == InitEmail /\ [][NextEmail]_vars

MaxRetries == 2

\* executeQuery on its own: every caller makes one call, with any retries
\* argument from -1 to MaxRetries - 1, and every attempt may end with any outcome.
NextQuery ==
  \/ \E c \in Slots, retries \in -1..(MaxRetries - 1) : executeQuery(c, retries)
  \/ \E c \in Slots : executeQuery_initializeDatabase(c)
  \/ \E c \in Slots : initializeDatabase_test(c)
  \/ \E c \in Slots : initializeDatabase_retry(c)
  \/ \E c \in Slots : executeQuery_execute(c)
  \/ \E c \in Slots : executeQuery_result(c)
  \/ \E c \in Slots : executeQuery_resetPool(c)
  \/ \E c \in Slots : executeQuery_continue(c)

SpecQuery == Init /\ [][NextQuery]_vars

\* The password decision of step 3 on its own: a request holds a candidate
\* password, and the decision is applied to it.
InitPassword ==
  /\ now = 0
  /\ InitGateway
  /\ sweepDue = FALSE
  /\ lastSweep = "none"
  /\ signup_tokens = [t \in TokIds |-> NoRow]
  /\ issued = [t \in TokIds |-> NoIssue]
  /\ pensioners_tbl = {}
  /\ users_tbl = {}
  /\ uniqueKeys = {}
  /\ \E p \in Passwords :
       req = [r \in Slots |->
                IF r = 1
                THEN [Idle EXCEPT !.pc = "password",
                        !.body = Step3Body(NoToken, [email |-> JuanMail.email, password |-> p])]
                ELSE Idle]

handleStep3_passwordDecision(r) ==
  /\ req[r].pc = "password"
  /\ req' = [req EXCEPT ![r] = passwordDecision(req[r])]
  /\ TokensUnchanged /\ AccountsUnchanged /\ EnvUnchanged

NextPassword == \E r \in Slots : handleStep3_passwordDecision(r)

SpecPassword == InitPassword /\ [][NextPassword]_vars

\* -------------------------------------------------------------------- claims
Done(r, step) == req[r].pc = "done" /\ req[r].body.step = step
\* the request met no infrastructure failure (connection test, query, commit, rollback)
NoDbFailure(r) == ~req[r].dbErr
\* the request's token resolved to a payload of the step it needs
TokenAccepted(r) == req[r].tokRes = "ok"
ValidCredentials(body) ==
  /\ body.email # Empty /\ body.password # Empty /\ isEmail(body.email)
  /\ filterPassword(body.password) = body.password
  /\ validatePasswordStrength(filterPassword(body.password))
\* an account-creation request that passed every check made before the database is asked
Step3Admitted(r) == Done(r, 3) /\ TokenAccepted(r) /\ ValidCredentials(req[r].body) /\ NoDbFailure(r)

\* C1: when two account-creation requests for the same registry record are in
\* flight together (neither saw an account on arrival), exactly one is answered
\* 201 and the other 409, and no registry record ever has two profile rows.
C1_OneWinner ==
  /\ \A p, q \in pensioners_tbl : p.hero_ndx = q.hero_ndx => p = q
  /\ \A r, o \in Slots :
       (/\ r # o /\ Step3Admitted(r) /\ Step3Admitted(o)
        /\ req[r].data.hero_ndx = req[o].data.hero_ndx
        /\ ~req[r].acctAtStart /\ ~req[o].acctAtStart)
       => {req[r].resp.status, req[o].resp.status} = {201, 409}

\* C2: a profile row exists exactly when its credential row exists: every
\* profile row has a credential row pointing at it and every credential row
\* points at a profile row, in every state the other connections can see.
C2_Atomic ==
  /\ \A p \in pensioners_tbl : \E u \in users_tbl : u.pensioner_ndx = p.id
  /\ \A u \in users_tbl : \E p \in pensioners_tbl : p.id = u.pensioner_ndx
\* one request committed, another inserted its profile row and then failed on
\* the credential row and rolled back
C2_Witness ==
  /\ uniqueKeys = {"email"}
  /\ \E r, o \in Slots :
       /\ Done(r, 3) /\ req[r].resp.status = 201
       /\ Done(o, 3) /\ req[o].err = "ER_DUP_ENTRY" /\ req[o].resp.status = 500
  /\ Cardinality(pensioners_tbl) = 1 /\ Cardinality(users_tbl) = 1

\* C3: the flow only moves Start -> Step 1 -> Step 2 -> Completed: a step-2
\* token is only issued against a step-1 token, a request gets past the token
\* check of step 2 (step 3) only with a step-1 (step-2) token, and every
\* account was created for the registry record a step-2 token names.
C3_Order ==
  /\ \A t \in TokIds : issued[t].step = 2 =>
        /\ issued[t].parent \in TokIds
        /\ issued[issued[t].parent].step = 1
        /\ issued[issued[t].parent].at <= issued[t].at
  /\ \A r \in Slots :
        /\ (req[r].body.step = 2 /\ (req[r].pc \in {"s2_match", "s2_store"} \/ req[r].resp.status = 200))
             => req[r].body.token \in TokIds /\ issued[req[r].body.token].step = 1
        /\ (req[r].body.step = 3 /\ (req[r].pc \in {"s3_email", "s3_hero", "s3_begin", "s3_ins_p",
                                                     "s3_ins_u", "s3_commit", "s3_rollback"}
                                      \/ req[r].resp.status = 201))
             => req[r].body.token \in TokIds /\ issued[req[r].body.token].step = 2
  /\ \A p \in pensioners_tbl :
        \E t \in TokIds : /\ issued[t].step = 2
                          /\ JSONparse(signup_tokens[t].data).hero_ndx = p.hero_ndx
\* an account exists, and requests carrying a step-1 token and an unknown token
\* were turned away at step 3
C3_Witness ==
  /\ pensioners_tbl # {}
  /\ \E r \in Slots : Done(r, 3) /\ req[r].tokRes = "wrongstep" /\ req[r].resp.status = 400

\* C4: an account-creation request that arrives with a valid step-2 token after
\* an account for the token's registry record exists is answered 409, whatever
\* email it carries, and no registry record gets a second profile row.
C4_Repeat ==
  /\ \A r \in Slots : (Step3Admitted(r) /\ req[r].acctAtStart) => req[r].resp.status = 409
  /\ \A p, q \in pensioners_tbl : p.hero_ndx = q.hero_ndx => p = q
  /\ Cardinality(users_tbl) = Cardinality(pensioners_tbl)
\* the repeated request carried an email no account uses
C4_Witness ==
  \E r \in Slots :
    /\ Step3Admitted(r) /\ req[r].acctAtStart
    /\ req[r].resp.code = "HERO_ACCOUNT_EXISTS"
    /\ existingUsers(normalizedEmail(req[r].body)) = {}

\* the registry rows that carry the serial number and type of a step-1 request
RegistryRows(body) ==
  {h \in test_table : toUpperCase(trim(h.AFPSN)) = toUpperCase(trim(body.afpsn)) /\ h.TYPE = body.type}
Step1Admitted(r) == Done(r, 1) /\ Step1Invalid(req[r].body) = "" /\ NoDbFailure(r)

\* C5: a well-formed step-1 request whose normalized serial number is in no
\* registry row is answered 404 and is given no token, and no request with such
\* a serial number gets past the existence check.
C5_UnknownSerial ==
  \A r \in Slots :
    /\ (Step1Admitted(r) /\ RegistryRows(req[r].body) = {})
          => req[r].resp.status = 404 /\ req[r].resp.token = NoToken
    /\ (req[r].body.step = 1 /\ req[r].pc \in {"s1_acct", "s1_store"})
          => RegistryRows(req[r].body) # {}

\* C6: a well-formed step-1 request for a registry record that already has a
\* linked account is answered 409 and is given no token, and never reaches the
\* point where a token is stored.
C6_AccountExists ==
  \A r \in Slots :
    /\ (Step1Admitted(r) /\ req[r].acctAtStart)
          => req[r].resp.status = 409 /\ req[r].resp.token = NoToken
    /\ (req[r].body.step = 1 /\ req[r].pc = "s1_store") => ~req[r].acctAtStart
C6_Witness ==
  \E r \in Slots :
    Step1Admitted(r) /\ req[r].acctAtStart /\ req[r].resp.code = "ACCOUNT_EXISTS"

\* the registry rows whose names, birth date, serial number and type are those
\* of a step-2 request and of the step-1 payload it resolved
SamePerson(s) ==
  {h \in test_table :
     /\ toUpperCase(trim(h.FIRSTNAME)) = toUpperCase(trim(s.body.firstname))
     /\ toUpperCase(trim(h.LASTNAME)) = toUpperCase(trim(s.body.lastname))
     /\ h.DOB[1] = s.body.dob[1]
     /\ toUpperCase(trim(h.AFPSN)) = s.data.afpsn /\ h.TYPE = s.data.type}
Step2Admitted(r) ==
  /\ Done(r, 2) /\ TokenAccepted(r) /\ NoDbFailure(r)
  /\ req[r].body.firstname # Empty /\ req[r].body.lastname # Empty /\ req[r].body.dob # <<0, 0>>

\* C7: a step-2 request with a valid step-1 token whose names or birth date
\* match no registry row of the token's serial number is answered 401 and is
\* given no step-2 token, and never reaches the point where a token is stored.
C7_Mismatch ==
  \A r \in Slots :
    /\ (Step2Admitted(r) /\ SamePerson(req[r]) = {})
          => req[r].resp.status = 401 /\ req[r].resp.token = NoToken
    /\ (req[r].body.step = 2 /\ req[r].pc = "s2_store") => SamePerson(req[r]) # {}
\* the names matched and the birth date did not
C7_Witness ==
  \E r \in Slots :
    /\ Step2Admitted(r) /\ req[r].resp.code = "PERSONAL_INFO_MISMATCH"
    /\ \E h \in test_table :
         /\ toUpperCase(trim(h.FIRSTNAME)) = toUpperCase(trim(req[r].body.firstname))
         /\ toUpperCase(trim(h.LASTNAME)) = toUpperCase(trim(req[r].body.lastname))
         /\ toUpperCase(trim(h.AFPSN)) = req[r].data.afpsn
         /\ h.DOB[1] # req[r].body.dob[1]

\* a request presented an issued token at or after the token's expiry instant
ResolvedLate(r) ==
  /\ req[r].body.step \in {2, 3}
  /\ req[r].body.token \in TokIds /\ issued[req[r].body.token] # NoIssue
  /\ req[r].resolvedAt >= issued[req[r].body.token].expires_at
  /\ req[r].tokRes # "dberror"

\* C8 as stated: resolving a token at or after its expiry always ends in
\* "expired", never in "not found", whatever ran in between (the sweep included).
C8_AlwaysExpired ==
  \A r \in Slots : (ResolvedLate(r) /\ req[r].pc = "done") => req[r].tokRes = "expired"

\* C8 amended: resolving a token at or after its expiry never yields the
\* payload; it ends in "expired", or in "not found" and then the sweep has
\* deleted the token's row.
C8_ExpiredOrSwept ==
  \A r \in Slots :
    ResolvedLate(r) =>
      /\ req[r].tokRes # "ok"
      /\ req[r].pc \in {"tok2", "done"}
      /\ req[r].pc = "done" => req[r].tokRes \in {"expired", "notfound"}
      /\ req[r].tokRes = "notfound" => signup_tokens[req[r].body.token] = NoRow
\* a token was presented after the sweep had removed its expired row
C8_Witness ==
  \E r \in Slots : ResolvedLate(r) /\ req[r].pc = "done" /\ req[r].tokRes = "notfound"
\* a token was presented after its expiry and before the sweep
C8_WitnessExpired ==
  \E r \in Slots : ResolvedLate(r) /\ req[r].pc = "done" /\ req[r].tokRes = "expired"

\* a step of getValidationToken: one of its two SELECTs is answered
Resolving(r) ==
  /\ req[r].pc \in {"idle", "tok2"}
  /\ req'[r] # req[r]
  /\ req'[r].body.step \in {2, 3}

\* C9: two resolutions of the same unexpired token return the same payload,
\* the one stored with the token, and a resolution changes nothing in the
\* token table.
C9_Idempotent ==
  /\ [](\A r, o \in Slots :
          (TokenAccepted(r) /\ TokenAccepted(o) /\ req[r].body.token = req[o].body.token)
            => /\ req[r].data = req[o].data
               /\ req[r].data = JSONparse(signup_tokens[req[r].body.token].data))
  /\ [][(\E r \in Slots : Resolving(r)) => signup_tokens' = signup_tokens]_vars
\* two requests hold the payload of the same token
C9_Witness ==
  \E r, o \in Slots :
    /\ r # o /\ TokenAccepted(r) /\ TokenAccepted(o)
    /\ req[r].body.token = req[o].body.token
    /\ req[r].data.step = 2

\* C10: a step-1 token expires one hour after it is issued and a step-2 token
\* two hours after, and the validUntil of the response is the stored expiry.
C10_Lifetimes ==
  /\ \A t \in TokIds :
       /\ issued[t].step = 1 => issued[t].expires_at = issued[t].at + 1 * TicksPerHour
       /\ issued[t].step = 2 => issued[t].expires_at = issued[t].at + 2 * TicksPerHour
  /\ \A r \in Slots :
       req[r].resp.status = 200 => req[r].resp.validUntil = issued[req[r].resp.token].expires_at

TokenFailureCodes == {"TOKEN_EXPIRED", "INVALID_STEP1_TOKEN", "TOKEN_DATA_ERROR"}

\* C11: step 2 answers an expired step-1 token with TOKEN_EXPIRED, a token
\* with no row with INVALID_STEP1_TOKEN and an undeserializable payload with
\* TOKEN_DATA_ERROR, all 400, and a database error during the token lookup is
\* reported under none of these three codes.
C11_DistinctCodes ==
  \A r \in Slots :
    Done(r, 2) =>
      /\ req[r].tokRes = "expired" => req[r].resp = Resp(400, "TOKEN_EXPIRED")
      /\ req[r].tokRes = "notfound" => req[r].resp = Resp(400, "INVALID_STEP1_TOKEN")
      /\ req[r].tokRes = "corrupt" => req[r].resp = Resp(400, "TOKEN_DATA_ERROR")
      /\ req[r].tokRes = "dberror" => req[r].resp.code \notin TokenFailureCodes

\* the request presents a token that was issued for another step
WrongStep(r) ==
  /\ req[r].body.step \in {2, 3}
  /\ req[r].body.token \in TokIds /\ issued[req[r].body.token] # NoIssue
  /\ issued[req[r].body.token].step # req[r].body.step - 1

\* C12: step 2 turns away every token that was not issued by step 1 and step 3
\* every token that was not issued by step 2, with a 400 answer (503 when the
\* connection test failed), and such a request writes no token and no account row.
C12_OwnStepOnly ==
  /\ [](\A r \in Slots :
          WrongStep(r) =>
            /\ req[r].pc \in {"tok2", "done"}
            /\ req[r].pc = "done" =>
                 /\ req[r].resp.status = 400 \/ (req[r].resp.status = 503 /\ req[r].dbErr)
                 /\ req[r].resp.token = NoToken)
  /\ [][(\E r \in Slots : WrongStep(r)') =>
          UNCHANGED <<signup_tokens, issued, pensioners_tbl, users_tbl>>]_vars
\* a valid step-2 token was presented to step 2 and refused
C12_Witness ==
  \E r \in Slots :
    /\ Done(r, 2) /\ WrongStep(r)
    /\ req[r].tokRes = "wrongstep" /\ req[r].resp.status = 400

\* C13: when more than one registry row matches (serial number and type in
\* step 1; serial number, type, names and birth date in step 2) the step
\* answers 409 and issues no token.
C13_MultipleMatches ==
  \A r \in Slots :
    /\ (Step1Admitted(r) /\ Cardinality(RegistryRows(req[r].body)) > 1)
          => req[r].resp.status = 409 /\ req[r].resp.token = NoToken
    /\ (Step2Admitted(r) /\ Cardinality(SamePerson(req[r])) > 1)
          => req[r].resp.status = 409 /\ req[r].resp.token = NoToken

\* step 2 alone: several rows matching the names and birth date end in 409
\* DUPLICATE_RECORDS and no token
C13_Step2Duplicates ==
  \A r \in Slots :
    /\ (Step2Admitted(r) /\ Cardinality(SamePerson(req[r])) > 1)
          => req[r].resp = Resp(409, "DUPLICATE_RECORDS")
    /\ (req[r].body.step = 2 /\ req[r].pc = "s2_store") => Cardinality(SamePerson(req[r])) = 1
C13_Step2Witness ==
  \E r \in Slots : Step2Admitted(r) /\ req[r].resp.code = "DUPLICATE_RECORDS"

\* the password decision has been taken
PasswordDecided(r) == req[r].body.step = 3 /\ req[r].pc \in {"s3_email", "done"}
PasswordAccepted(r) == req[r].pc = "s3_email"
PasswordRejected(r) == req[r].pc = "done" /\ req[r].resp.status = 400
HasLetterDigitSpecial(p) ==
  /\ \E i \in DOMAIN p : p[i] \in Letters
  /\ \E i \in DOMAIN p : p[i] \in Digits
  /\ \E i \in DOMAIN p : p[i] \in SpecialChars
HasRun(p) == \E i \in 1..(Len(p) - 2) : p[i] = p[i + 1] /\ p[i + 1] = p[i + 2]
OnDenylist(p) ==
  \E w \in CommonPasswords :
    Len(p) >= Len(w) /\ \A i \in 1..Len(w) : toLowerChar(p[i]) = w[i]
Unfiltered(p) ==
  /\ \A i \in DOMAIN p : p[i] \notin FilteredChars
  /\ Len(p) > 0 => p[1] # " " /\ p[Len(p)] # " "

LoginRequest(r) ==
  /\ req[r].body.step = 0 /\ req[r].pc # "idle"
  /\ req[r].body.email # Empty /\ req[r].body.password # Empty /\ isEmail(req[r].body.email)
  /\ NoDbFailure(r)
\* the account rows registered under the address of the request
AccountsOf(r) == {u \in users_tbl : u.email = toLowerCase(trim(req[r].body.email))}
PasswordIsRight(r) == \E u \in AccountsOf(r) : u.password_hash = <<"$2a$12$">> \o req[r].body.password

\* C15: a login with an unregistered address and a login with a registered,
\* non-suspended address and a wrong password get the same response: status
\* 401, code INVALID_CREDENTIALS and the same message.
C15_NoEnumeration ==
  \A r, o \in Slots :
    (/\ LoginRequest(r) /\ req[r].pc = "done" /\ AccountsOf(r) = {}
     /\ LoginRequest(o) /\ req[o].pc = "done" /\ AccountsOf(o) # {}
     /\ \A u \in AccountsOf(o) : u.status # "SUS"
     /\ ~PasswordIsRight(o))
    => /\ req[r].resp = req[o].resp
       /\ req[r].resp.status = 401 /\ req[r].resp.code = "INVALID_CREDENTIALS"
C15_Witness ==
  \E r, o \in Slots :
    /\ LoginRequest(r) /\ req[r].pc = "done" /\ AccountsOf(r) = {}
    /\ LoginRequest(o) /\ req[o].pc = "done" /\ AccountsOf(o) # {}
    /\ \A u \in AccountsOf(o) : u.status # "SUS"
    /\ ~PasswordIsRight(o)
    /\ req[r].body.password = req[o].body.password

\* C16: a login for a suspended account never reaches the password check or
\* the success response: it ends in 403 ACCOUNT_SUSPENDED whatever password is
\* supplied, and the last_login of a suspended account is never written.
C16_Suspended ==
  /\ \A r \in Slots :
       (LoginRequest(r) /\ \E u \in AccountsOf(r) : u.status = "SUS")
         => /\ req[r].pc = "done"
            /\ req[r].resp.status = 403 /\ req[r].resp.code = "ACCOUNT_SUSPENDED"
  /\ \A u \in users_tbl : u.status = "SUS" => u.last_login = -1
\* the right password was supplied for a suspended account, while another
\* account has logged in
C16_Witness ==
  /\ \E r \in Slots :
       /\ LoginRequest(r) /\ req[r].pc = "done" /\ PasswordIsRight(r)
       /\ \E u \in AccountsOf(r) : u.status = "SUS"
  /\ \E u \in users_tbl : u.last_login # -1

\* C17: a signup request in which a query failed with a database error (a
\* transient one included: the handlers do not look at the error's code) is
\* answered 503, and none of its rows is committed.
C17_TransientIs503 ==
  /\ \A r \in Slots :
       (req[r].pc = "done" /\ req[r].body.step \in {1, 2, 3} /\ req[r].dbErr)
         => req[r].resp.status = 503
  /\ C2_Atomic

\* the request is missing a field of its step or carries a malformed one
InvalidInput(r) ==
  LET b == req[r].body
  IN CASE b.step = 1 -> \/ b.type \notin {"P", "B"} \/ b.afpsn = Empty
                        \/ (b.type = "P" /\ b.bos = Empty)
                        \/ (b.type = "B" /\ (b.b_type = "" \/ b.principal_first_name = Empty
                                             \/ b.principal_last_name = Empty))
       [] b.step = 2 -> b.token = NoToken \/ b.firstname = Empty \/ b.lastname = Empty \/ b.dob = <<0, 0>>
       [] b.step = 3 -> b.token = NoToken \/ ~ValidCredentials(b)
       [] OTHER -> FALSE

\* C18: in every signup step a request that fails input validation is answered
\* 400 (503 when the connection test failed) and its handler has sent no
\* statement to the database.
C18_ValidationFirst ==
  \A r \in Slots :
    (req[r].pc = "done" /\ InvalidInput(r))
      => /\ req[r].resp.status \in {400, 503}
         /\ ~req[r].queried

\* the connections checked out of the pool by signup handlers
CheckedOut == {r \in Slots : req[r].conn}

\* C19: a handler holds a connection only between getConnection and the end
\* of its transaction; once it has answered (commit, failed insert or commit,
\* failed rollback) or is idle, its connection is back in the pool.
C19_Released ==
  \A r \in Slots :
    /\ req[r].pc \in {"idle", "done"} => r \notin CheckedOut
    /\ r \in CheckedOut => req[r].pc \in {"s3_ins_p", "s3_ins_u", "s3_commit", "s3_rollback"}
\* one request committed and one ended with a failed rollback, and no connection
\* is checked out
C19_Witness ==
  /\ \E r \in Slots : req[r].pc = "done" /\ req[r].err = "ROLLBACK_FAILED"
  /\ \E r \in Slots : req[r].pc = "done" /\ req[r].resp.status = 201
  /\ CheckedOut = {}

\* the transient connection errors: connection lost, reset, timed out, not
\* found, refused
TransientCodes ==
  {"PROTOCOL_CONNECTION_LOST", "ECONNRESET", "ETIMEDOUT", "ENOTFOUND", "ECONNREFUSED"}

\* the attempts of call c that have ended
Attempts(c) == call[c].log

\* call c is running an attempt, or has moved on to the next one
Proceeding(c) == call[c].pc \in {"attempt", "init_test", "init_wait", "initialized", "executing"}

\* C20: executeQuery(query, params, retries) makes at most retries + 1
\* attempts; every attempt that was followed by another one failed with a
\* transient connection error; an attempt that failed with any other error is
\* the last one and its error is what the caller gets; a transient error
\* reaches the caller only from attempt retries + 1; and between two attempts
\* pool.end() was called on the pool the module held when the attempt failed,
\* the module's pool was reset, and the next attempt runs on a pool created
\* after the failure.
C20_Retry ==
  \A c \in Slots :
    LET s == call[c]
        n == Len(Attempts(c))
    IN /\ s.pc # "idle" /\ s.retries >= 0 => n <= s.retries + 1 /\ s.attempt <= s.retries + 1
       /\ s.pc # "idle" /\ s.retries < 0 => n = 0 /\ s.pc = "returned"
       /\ \A i \in 1..n :
            LET a == Attempts(c)[i]
                followed == i < n \/ Proceeding(c) \/ s.pc \in {"ending", "waiting"}
            IN /\ followed => a.err \in TransientCodes
               /\ a.err # "" /\ a.err \notin TransientCodes =>
                    i = n /\ s.pc = "thrown" /\ s.thrown = a.err
               /\ a.err = "" => i = n /\ s.pc = "returned"
               /\ (i < n \/ Proceeding(c)) =>
                    /\ a.current # 0 => a.current \in endedPools
                    /\ a.pool # 0 => a.pool <= a.seqEnd
                    /\ i < n /\ Attempts(c)[i + 1].pool # 0 => Attempts(c)[i + 1].pool > a.seqEnd
                    /\ i = n /\ s.usedPool # 0 => s.usedPool > a.seqEnd
               /\ i = n /\ s.pc = "attempt" => pool # a.current \/ pool = 0
       /\ s.pc = "thrown" => n >= 1 /\ s.thrown = Attempts(c)[n].err
       /\ s.pc = "thrown" /\ s.thrown \in TransientCodes => n = s.retries + 1

\* a call with one retry whose two attempts ran on two different pools and both
\* failed with a transient error, which the caller then got; and a call whose
\* first attempt failed with another error, which the caller got at once
C20_Witness ==
  /\ \E c \in Slots :
       /\ call[c].pc = "thrown" /\ call[c].retries = 1 /\ Len(Attempts(c)) = 2
       /\ Attempts(c)[1].pool # 0 /\ Attempts(c)[2].pool # 0
       /\ Attempts(c)[1].pool # Attempts(c)[2].pool
       /\ Attempts(c)[1].pool \in endedPools
       /\ call[c].thrown = "ETIMEDOUT"
  /\ \E c \in Slots :
       /\ call[c].pc = "thrown" /\ call[c].retries = 1 /\ Len(Attempts(c)) = 1
       /\ call[c].thrown = "ER_PARSE_ERROR"

\* request r holds a connection on which its transaction has begun
InTransaction(r) == req[r].conn

\* the step of request r that runs one of the two uniqueness checks of step 3
RunsCheck(r) == req[r].pc \in {"s3_email", "s3_hero"} /\ req'[r] # req[r]

\* the step of request r that runs one of the two inserts of step 3
RunsInsert(r) == req[r].pc \in {"s3_ins_p", "s3_ins_u"} /\ req'[r] # req[r]

\* C21: in step 3 the email-uniqueness check and the registry-identity check
\* run inside the transaction that performs the two inserts: whenever a request
\* runs a check or an insert, it holds the connection of its open transaction.
C21_ChecksInTransaction ==
  [][\A r \in Slots : (RunsCheck(r) \/ RunsInsert(r)) => InTransaction(r)]_vars

\* request r, which had begun a transaction, has been answered with an error
FailedInTransaction(r) ==
  req[r].pc = "done" /\ req[r].began /\ req[r].resp.status >= 400

\* the rollback of request r's transaction has completed
RolledBack(r) == req[r].err \in {"DB", "ER_DUP_ENTRY"}

\* C22: a step-3 request that has begun a transaction and is answered with an
\* error has had its rollback completed before the answer is sent, and none of
\* its rows is committed.
C22_RollbackBeforeError ==
  \A r \in Slots :
    FailedInTransaction(r) =>
      /\ RolledBack(r)
      /\ ~req[r].conn
      /\ \A u \in users_tbl : u.email # normalizedEmail(req[r].body)

\* attempt i of call c failed because it timed out
TimedOut(c, i) == Attempts(c)[i].err = "ETIMEDOUT"

\* C23: an attempt of executeQuery that timed out is the call's last attempt,
\* and its error is what the caller gets: the gateway does not retry it.
C23_TimeoutNotRetried ==
  \A c \in Slots : \A i \in 1..Len(Attempts(c)) :
    TimedOut(c, i) =>
      /\ i = Len(Attempts(c))
      /\ call[c].pc = "thrown"
      /\ call[c].thrown = "ETIMEDOUT"

\* this step is taken by request r, a step-1 or step-2 request
StepOf12(r) == req'[r] # req[r] /\ req'[r].pc # "idle" /\ req'[r].body.step \in {1, 2}

\* this step answers request r with the 200 of a successful step
Succeeds(r) == req'[r].pc = "done" /\ req'[r].resp.status = 200

\* the token table gains exactly one row, under a token that had none, and
\* keeps every other row as it is
OneNewToken ==
  \E t \in TokIds :
    /\ signup_tokens[t] = NoRow /\ signup_tokens'[t] # NoRow
    /\ \A o \in TokIds \ {t} : signup_tokens'[o] = signup_tokens[o]

\* C24: no step of a step-1 or step-2 request changes a profile or credential
\* row (the registry is never written by any handler); the step that answers
\* 200 adds exactly one new token row, and every other step of such a request,
\* in particular one that answers with an error, leaves the token table as it is.
C24_ReadsOnly ==
  [][\A r \in Slots :
       StepOf12(r) =>
         /\ pensioners_tbl' = pensioners_tbl /\ users_tbl' = users_tbl
         /\ IF Succeeds(r) THEN OneNewToken ELSE signup_tokens' = signup_tokens]_vars

\* a step 2 that succeeded while the step-1 token's row was there: two rows,
\* no account
C24_Witness ==
  /\ \E r \in Slots : req[r].pc = "done" /\ req[r].body.step = 2 /\ req[r].resp.status = 200
  /\ Cardinality({t \in TokIds : signup_tokens[t] # NoRow}) = 2
  /\ users_tbl = {} /\ pensioners_tbl = {}

\* this step is a run of the token sweep
Sweeps == sweepDue /\ ~sweepDue' /\ now' = now

\* the sweep's DELETE went through
Swept == lastSweep' = "done"

\* token t has a row that has not expired: resolving it would return its payload
StillValid(t) == signup_tokens[t] # NoRow /\ signup_tokens[t].expires_at > now

AllowedBranches == { <<"A", "R">>, <<"A", "F">>, <<"N", "V">>, <<"P", "C">> }
AllowedRelationships == {"SP", "CH", "PR", "SB"}

\* a step-1 body with a value outside its enumeration
OutsideEnum(body) ==
  \/ body.type \notin {"P", "B"}
  \/ body.type = "P" /\ body.bos \notin AllowedBranches
  \/ body.type = "B" /\ body.b_type \notin AllowedRelationships

\* C26: a step-1 request whose category, branch of service (Principal) or
\* relationship type (Beneficiary) is outside its enumeration is answered with
\* a 400-class error and gets no token.
C26_EnumMembership ==
  \A r \in Slots :
    Done(r, 1) /\ NoDbFailure(r) /\ OutsideEnum(req[r].body) =>
      /\ req[r].resp.status \in 400..499
      /\ req[r].resp.token = NoToken

\* token t was issued and has not reached its expiry
Unexpired(t) == issued[t] # NoIssue /\ now < issued[t].expires_at

\* token t has been used: a step-2 token was derived from it, or a step-3
\* request that presented it has been answered
Used(t) ==
  \/ \E k \in TokIds : issued[k] # NoIssue /\ issued[k].parent = t
  \/ \E r \in Slots : Done(r, 3) /\ req[r].body.token = t

\* C27: using a token does not consume it: every issued token keeps its row,
\* with the payload and the expiry it was stored with, until its expiry, however
\* often it has been used; a row is only ever removed by the sweep, and only
\* once it has expired.
C27_NotConsumed ==
  /\ [](\A t \in TokIds : Unexpired(t) =>
          /\ signup_tokens[t] # NoRow
          /\ signup_tokens[t].expires_at = issued[t].expires_at
          /\ Parseable(signup_tokens[t].data) /\ JSONparse(signup_tokens[t].data).step = issued[t].step)
  /\ [][\A t \in TokIds : signup_tokens[t] # NoRow /\ signup_tokens'[t] # signup_tokens[t] =>
          /\ signup_tokens'[t] = NoRow
          /\ sweepDue /\ ~sweepDue'
          /\ signup_tokens[t].expires_at <= now]_vars

\* one step-1 token has yielded two step-2 tokens, one of them has been used to
\* create the account, and all three still have their rows
C27_Witness ==
  \E t1, t2, t3 \in TokIds :
    /\ t2 # t3 /\ issued[t1] # NoIssue /\ issued[t1].step = 1
    /\ issued[t2] # NoIssue /\ issued[t2].parent = t1
    /\ issued[t3] # NoIssue /\ issued[t3].parent = t1
    /\ \E r \in Slots : Done(r, 3) /\ req[r].body.token = t2 /\ req[r].resp.status = 201
    /\ Used(t1) /\ Used(t2)
    /\ \A t \in {t1, t2, t3} : Unexpired(t) /\ signup_tokens[t] # NoRow

\* call c has a statement running on a pool
InFlight(c) == call[c].pc = "executing" /\ call[c].usedPool # 0

\* C28: the retry path never ends a pool that another call is using, and the
\* pool a retry ends is the pool its own attempt failed on, never a later pool
\* that another call's retry has created in the meantime.
C28_NoSharedTeardown ==
  /\ \A c \in Slots : InFlight(c) => call[c].usedPool \notin endedPools
  /\ \A c \in Slots : \A i \in 1..Len(Attempts(c)) :
       LET a == Attempts(c)[i]
       IN (i < Len(Attempts(c)) \/ call[c].pc \in {"ending", "waiting"}) /\ a.current # 0 =>
            a.current = a.pool

\* C29: no two credential rows carry the same normalized email, whatever the
\* interleaving of the step-3 requests of different registry records.
C29_UniqueEmail ==
  \A u1 \in users_tbl, u2 \in users_tbl : u1.email = u2.email => u1 = u2

\* the initializeDatabase call made by call c, which found no pool when it
\* started, has returned a pool
Initialized(c) == call[c].pc = "initialized"

\* C30: initializeDatabase, called when no pool exists, returns a pool only
\* after a connection test has succeeded during the call; when the test fails
\* the call goes on to its next attempt or throws, and never returns.
C30_TestedPool ==
  \A c \in Slots : Initialized(c) => call[c].tested

====
